---- MODULE Spec2Model ----
(***************************************************************************)
(* Model of the HD44780 character-LCD driver (LCD.c / LCD.h) that talks to *)
(* the controller through a PCF8574 I/O expander on an I2C bus.            *)
(*                                                                         *)
(* The driver state is the pair of file-static variables hi2c_lcd and      *)
(* lcd_addr.  Every public function is one atomic action (the driver is    *)
(* synchronous and single-threaded); the bus transactions the call issues  *)
(* through HAL_I2C_Master_Transmit are recorded, in order, in bus.         *)
(***************************************************************************)
EXTENDS Integers, Sequences, FiniteSets, TLC

VARIABLES
    hi2c_lcd,   \* static I2C_HandleTypeDef* hi2c_lcd  (NULL or a handle)
    lcd_addr,   \* static uint8_t lcd_addr
    halted,     \* TRUE once a call has faulted instead of returning
    op,         \* name of the most recent public call ("none" before any)
    arg,        \* its arguments
    ret,        \* its return status (NoReturn when it did not return)
    bus,        \* the bus transactions it issued, in order
    pre,        \* driver state and history just before that call
    inited,     \* history: some earlier call was Init with a valid handle
    setaddr,    \* history: argument of the latest SetAddress (or default)
    oddtx,      \* history: an odd number of transactions was issued so far
    enhigh,     \* history: the latest transaction so far had LCD_EN set
    inp         \* inputs fixed at start (used by the full-range checks)

vars == <<hi2c_lcd, lcd_addr, halted, op, arg, ret, bus, pre, inited,
          setaddr, oddtx, enhigh, inp>>

----------------------------------------------------------------------------
(* Values passed to the driver.  A pointer is null or points at an array   *)
(* mem, with mem[i + 1] the C expression p[i].  A float is NaN, an         *)
(* infinity, or the finite value sign * (int + frac / FracDen) with int    *)
(* given by its decimal digits, most significant first.                    *)

Pointer(isnull, array) == [null |-> isnull, mem |-> array]

Float(k, negative, digits, f) ==
    [kind |-> k, neg |-> negative, int |-> digits, frac |-> f]

----------------------------------------------------------------------------
(* Bounds of the model                                                     *)

NumHandles   == 2    \* distinct valid transport handles
MaxAddr      == 1    \* SetAddress arguments are AddrOf(0..MaxAddr)
MaxRow       == 4    \* SetCursor rows 0..MaxRow in the sequence model
MaxColDelta  == 1    \* SetCursor columns 20-MaxColDelta .. 20+MaxColDelta
MaxLen       == 2    \* longest text buffer is MaxLen characters + NUL
MaxNum       == 10   \* PrintInt arguments -MaxNum..MaxNum
MaxBig       == 1    \* PrintFloat magnitudes k * 2^46, k in 1..MaxBig
MaxDecimals  == 7    \* PrintFloat decimals 0..MaxDecimals
MaxLocation  == 8    \* CreateChar / WriteChar locations 0..MaxLocation
NumGlyphs    == 2    \* glyph bitmaps Glyph(1..NumGlyphs)
MaxState     == 2    \* Display / Cursor / Blink arguments 0..MaxState

----------------------------------------------------------------------------
(* LCD.h                                                                   *)

LCD_CLEAR_DISPLAY   == 1
LCD_RETURN_HOME     == 2
LCD_ENTRY_MODE_SET  == 4
LCD_DISPLAY_CONTROL == 8
LCD_CURSOR_SHIFT    == 16
LCD_FUNCTION_SET    == 32
LCD_SET_CGRAM_ADDR  == 64
LCD_SET_DDRAM_ADDR  == 128

LCD_ENTRY_LEFT      == 2
LCD_DISPLAY_ON      == 4
LCD_CURSOR_ON       == 2
LCD_BLINK_ON        == 1
LCD_DISPLAY_MOVE    == 8
LCD_MOVE_RIGHT      == 4
LCD_MOVE_LEFT       == 0
LCD_4BIT_MODE       == 0
LCD_2LINE           == 8
LCD_5x8DOTS         == 0

LCD_RS              == 1
LCD_RW              == 2
LCD_EN              == 4
LCD_BACKLIGHT       == 8

LCD_OK              == 0
LCD_ERROR           == 1
LCD_NOT_INITIALIZED == 2

NULL     == 0             \* the null pointer
NoReturn == LCD_OK - 1    \* ret when no status was returned; not a status
MaxByte  == 255           \* largest uint8_t

----------------------------------------------------------------------------
(* C integer arithmetic on uint8_t                                         *)

(* Bit i of x, bit 0 the least significant.                                *)
BitOf(x, i) == (x \div (2 ^ i)) % 2

(* a & b where b is a uint8_t (a mask or a byte): the bits above bit 7 of  *)
(* the result are clear.                                                   *)
BitAnd[a \in Nat, b \in Nat] ==
    BitOf(a, 0) * BitOf(b, 0)       + BitOf(a, 1) * BitOf(b, 1) * 2
    + BitOf(a, 2) * BitOf(b, 2) * 4   + BitOf(a, 3) * BitOf(b, 3) * 8
    + BitOf(a, 4) * BitOf(b, 4) * 16  + BitOf(a, 5) * BitOf(b, 5) * 32
    + BitOf(a, 6) * BitOf(b, 6) * 64  + BitOf(a, 7) * BitOf(b, 7) * 128

(* a | b on uint8_t: every bit set in either.                              *)
BitOr[a \in Nat, b \in Nat] == a + b - BitAnd[a, b]

U8(x) == x % 256     \* conversion of an int to uint8_t

----------------------------------------------------------------------------
(* Protocol encoder.  Each function is modelled by the packet bytes it     *)
(* hands to HAL_I2C_Master_Transmit, in order; the result of a transfer is *)
(* not looked at by the driver.                                            *)

(* Variant: the pulse written as LCD_PulseEnable writes it, the packet    *)
(* first without the enable bit, then with it, then without it.            *)
LCD_WriteNibble_Pulse(data, rs) ==
    LET p1 == IF rs # 0 THEN BitOr[data, LCD_RS] ELSE data
        p2 == BitOr[p1, LCD_BACKLIGHT]
        p3 == BitOr[p2, LCD_EN]
    IN  <<p2, p3, p2>>

LCD_WriteNibble(data, rs) ==
    LET p0 == data
        p1 == IF rs # 0 THEN BitOr[p0, LCD_RS] ELSE p0
        p2 == BitOr[p1, LCD_BACKLIGHT]
        p3 == BitOr[p2, LCD_EN]
        p4 == BitAnd[p3, 255 - LCD_EN]
    IN  <<p3, p4>>

(* Variant: the low nibble sent without the shift into bits 7..4.          *)
LCD_WriteByte_NoShift(data, rs) ==
    LCD_WriteNibble(BitAnd[data, 240], rs)
        \o LCD_WriteNibble(BitAnd[data, 15], rs)

LCD_WriteByte(data, rs) ==
    LCD_WriteNibble(BitAnd[data, 240], rs)
        \o LCD_WriteNibble(BitAnd[data * 16, 240], rs)

(* LCD_WriteByte tabulated over its arguments.                             *)
WriteByteOf ==
    [data \in 0..MaxByte |-> [rs \in 0..1 |-> LCD_WriteByte(data, rs)]]

LCD_WriteCommand(cmd) == WriteByteOf[cmd][0]

LCD_WriteData(data) == WriteByteOf[data][1]

(* Bus transport: HAL_I2C_Master_Transmit(hi2c_lcd, lcd_addr, &packet, 1,  *)
(* 10) for each packet.  The two statics are read when the transfer is     *)
(* made, which in every function is after its assignments to them.         *)
Transmit(packets) ==
    [i \in 1..Len(packets) |->
        [hi2c |-> hi2c_lcd', addr |-> lcd_addr', data |-> <<packets[i]>>]]

----------------------------------------------------------------------------
(* Bookkeeping common to every public call: what was called, the state it  *)
(* was called in, and the history variables.                               *)

Observe(name, a) ==
    /\ op' = name
    /\ arg' = a
    /\ pre' = [hi2c_lcd |-> hi2c_lcd, lcd_addr |-> lcd_addr,
               inited |-> inited, setaddr |-> setaddr]
    /\ inited' = (inited \/ (name = "Init" /\ a.hi2c # NULL))
    /\ setaddr' = IF name = "SetAddress" THEN a.address ELSE setaddr
    /\ oddtx' = (oddtx # (Len(bus') % 2 = 1))
    /\ enhigh' = IF bus' = <<>> THEN enhigh
                 ELSE BitAnd[bus'[Len(bus')].data[1], LCD_EN] # 0
    /\ UNCHANGED inp

(* The call transmitted the packets and returned status.                   *)
Returns(status, packets) ==
    /\ ret' = status
    /\ bus' = Transmit(packets)
    /\ halted' = FALSE

(* The call transmitted the packets and then faulted.                      *)
Faults(packets) ==
    /\ ret' = NoReturn
    /\ bus' = Transmit(packets)
    /\ halted' = TRUE

----------------------------------------------------------------------------
(* Public functions                                                        *)

(* Variant: the handle stored before it is checked.                       *)
LCD_Init_BindFirst(hi2c) ==
    /\ ~halted
    /\ hi2c_lcd' = hi2c
    /\ UNCHANGED lcd_addr
    /\ IF hi2c = NULL
       THEN Returns(LCD_ERROR, <<>>)
       ELSE Returns(LCD_OK,
                  LCD_WriteNibble(U8(3 * 16), 0)
               \o LCD_WriteNibble(U8(3 * 16), 0)
               \o LCD_WriteNibble(U8(3 * 16), 0)
               \o LCD_WriteNibble(U8(2 * 16), 0)
               \o LCD_WriteCommand(BitOr[BitOr[BitOr[LCD_FUNCTION_SET,
                        LCD_4BIT_MODE], LCD_2LINE], LCD_5x8DOTS])
               \o LCD_WriteCommand(LCD_DISPLAY_CONTROL)
               \o LCD_WriteCommand(LCD_CLEAR_DISPLAY)
               \o LCD_WriteCommand(BitOr[LCD_ENTRY_MODE_SET, LCD_ENTRY_LEFT])
               \o LCD_WriteCommand(BitOr[LCD_DISPLAY_CONTROL, LCD_DISPLAY_ON]))
    /\ Observe("Init", [hi2c |-> hi2c])

(* Variant: entry mode set before the display is cleared.                  *)
LCD_Init_EntryFirst(hi2c) ==
    /\ ~halted
    /\ IF hi2c = NULL
       THEN /\ UNCHANGED <<hi2c_lcd, lcd_addr>>
            /\ Returns(LCD_ERROR, <<>>)
       ELSE /\ hi2c_lcd' = hi2c
            /\ UNCHANGED lcd_addr
            /\ Returns(LCD_OK,
                  LCD_WriteNibble(U8(3 * 16), 0)
               \o LCD_WriteNibble(U8(3 * 16), 0)
               \o LCD_WriteNibble(U8(3 * 16), 0)
               \o LCD_WriteNibble(U8(2 * 16), 0)
               \o LCD_WriteCommand(BitOr[BitOr[BitOr[LCD_FUNCTION_SET,
                        LCD_4BIT_MODE], LCD_2LINE], LCD_5x8DOTS])
               \o LCD_WriteCommand(LCD_DISPLAY_CONTROL)
               \o LCD_WriteCommand(BitOr[LCD_ENTRY_MODE_SET, LCD_ENTRY_LEFT])
               \o LCD_WriteCommand(LCD_CLEAR_DISPLAY)
               \o LCD_WriteCommand(BitOr[LCD_DISPLAY_CONTROL, LCD_DISPLAY_ON]))
    /\ Observe("Init", [hi2c |-> hi2c])

LCD_Init(hi2c) ==
    /\ ~halted
    /\ IF hi2c = NULL
       THEN /\ UNCHANGED <<hi2c_lcd, lcd_addr>>
            /\ Returns(LCD_ERROR, <<>>)
       ELSE /\ hi2c_lcd' = hi2c
            /\ UNCHANGED lcd_addr
            /\ Returns(LCD_OK,
                  LCD_WriteNibble(U8(3 * 16), 0)
               \o LCD_WriteNibble(U8(3 * 16), 0)
               \o LCD_WriteNibble(U8(3 * 16), 0)
               \o LCD_WriteNibble(U8(2 * 16), 0)
               \o LCD_WriteCommand(BitOr[BitOr[BitOr[LCD_FUNCTION_SET,
                        LCD_4BIT_MODE], LCD_2LINE], LCD_5x8DOTS])
               \o LCD_WriteCommand(LCD_DISPLAY_CONTROL)
               \o LCD_WriteCommand(LCD_CLEAR_DISPLAY)
               \o LCD_WriteCommand(BitOr[LCD_ENTRY_MODE_SET, LCD_ENTRY_LEFT])
               \o LCD_WriteCommand(BitOr[LCD_DISPLAY_CONTROL, LCD_DISPLAY_ON]))
    /\ Observe("Init", [hi2c |-> hi2c])

LCD_Clear ==
    /\ ~halted
    /\ UNCHANGED <<hi2c_lcd, lcd_addr>>
    /\ IF hi2c_lcd = NULL
       THEN Returns(LCD_NOT_INITIALIZED, <<>>)
       ELSE Returns(LCD_OK, LCD_WriteCommand(LCD_CLEAR_DISPLAY))
    /\ Observe("Clear", [none |-> 0])

row_offsets == <<0, 64, 20, 84>>     \* {0x00, 0x40, 0x14, 0x54}

(* Variant: the column bound off by one.                                  *)
LCD_SetCursor_OffByOne(row, col) ==
    /\ ~halted
    /\ UNCHANGED <<hi2c_lcd, lcd_addr>>
    /\ IF hi2c_lcd = NULL
       THEN Returns(LCD_NOT_INITIALIZED, <<>>)
       ELSE LET row1 == IF row >= 4 THEN 3 ELSE row
                col1 == IF col > 20 THEN 19 ELSE col
            IN  Returns(LCD_OK,
                    LCD_WriteCommand(U8(BitOr[LCD_SET_DDRAM_ADDR,
                                              col1 + row_offsets[row1 + 1]])))
    /\ Observe("SetCursor", [row |-> row, col |-> col])

LCD_SetCursor(row, col) ==
    /\ ~halted
    /\ UNCHANGED <<hi2c_lcd, lcd_addr>>
    /\ IF hi2c_lcd = NULL
       THEN Returns(LCD_NOT_INITIALIZED, <<>>)
       ELSE LET row1 == IF row >= 4 THEN 3 ELSE row
                col1 == IF col >= 20 THEN 19 ELSE col
            IN  Returns(LCD_OK,
                    LCD_WriteCommand(U8(BitOr[LCD_SET_DDRAM_ADDR,
                                              col1 + row_offsets[row1 + 1]])))
    /\ Observe("SetCursor", [row |-> row, col |-> col])

(* The while loop of LCD_PrintString.                                      *)
RECURSIVE WriteString(_, _)
WriteString(mem, i) ==
    IF mem[i + 1] = 0 THEN <<>>
    ELSE LCD_WriteData(U8(mem[i + 1])) \o WriteString(mem, i + 1)

(* Variant: a do-while loop, which also sends the terminator.             *)
PrintString_Terminator(str) ==
    IF hi2c_lcd = NULL THEN [ret |-> LCD_NOT_INITIALIZED, out |-> <<>>]
    ELSE IF str.null THEN [ret |-> LCD_ERROR, out |-> <<>>]
    ELSE [ret |-> LCD_OK,
          out |-> WriteString(str.mem, 0) \o LCD_WriteData(0)]

(* Status and transactions of a call LCD_PrintString(str).                 *)
PrintString(str) ==
    IF hi2c_lcd = NULL THEN [ret |-> LCD_NOT_INITIALIZED, out |-> <<>>]
    ELSE IF str.null THEN [ret |-> LCD_ERROR, out |-> <<>>]
    ELSE [ret |-> LCD_OK, out |-> WriteString(str.mem, 0)]

LCD_PrintString(str) ==
    /\ ~halted
    /\ UNCHANGED <<hi2c_lcd, lcd_addr>>
    /\ \E r \in {PrintString(str)} : Returns(r.ret, r.out)
    /\ Observe("PrintString", [str |-> str])

(* Decimal digits, most significant first.                                 *)
RECURSIVE UDigits(_)
UDigits(n) == IF n < 10 THEN <<n>> ELSE UDigits(n \div 10) \o <<n % 10>>

Ascii(digits) == [i \in 1..Len(digits) |-> 48 + digits[i]]

(* itoa(num, buffer, 10): the NUL-terminated decimal text of num.          *)
itoa(num) ==
    (IF num < 0 THEN <<45>> \o Ascii(UDigits(0 - num))
                ELSE Ascii(UDigits(num))) \o <<0>>

LCD_PrintInt(num) ==
    /\ ~halted
    /\ UNCHANGED <<hi2c_lcd, lcd_addr>>
    /\ IF hi2c_lcd = NULL
       THEN Returns(LCD_NOT_INITIALIZED, <<>>)
       ELSE \E r \in {PrintString(Pointer(FALSE, itoa(num)))} :
                Returns(r.ret, r.out)
    /\ Observe("PrintInt", [num |-> num])

FracDen == 4

RECURSIVE Pow10(_)
Pow10(d) == IF d = 0 THEN 1 ELSE 10 * Pow10(d - 1)

RECURSIVE PadDigits(_, _)
PadDigits(n, d) ==
    IF d = 0 THEN <<>> ELSE PadDigits(n \div 10, d - 1) \o <<n % 10>>

RECURSIVE IncDigits(_)
IncDigits(ds) ==
    IF ds = <<>> THEN <<1>>
    ELSE IF ds[Len(ds)] < 9
         THEN SubSeq(ds, 1, Len(ds) - 1) \o <<ds[Len(ds)] + 1>>
         ELSE IncDigits(SubSeq(ds, 1, Len(ds) - 1)) \o <<0>>

(* sprintf(buffer, "%.<d>f", num): fixed notation, d decimals, the exact   *)
(* value rounded to nearest with ties to even.  The text, without the NUL. *)
sprintf_f(num, d) ==
    IF num.kind = "nan" THEN <<110, 97, 110>>
    ELSE LET sign == IF num.neg THEN <<45>> ELSE <<>>
         IN  IF num.kind = "inf" THEN sign \o <<105, 110, 102>>
             ELSE LET scaled == num.frac * Pow10(d)
                      q      == scaled \div FracDen
                      r      == scaled % FracDen
                      odd    == IF d = 0
                                THEN num.int[Len(num.int)] % 2 = 1
                                ELSE q % 2 = 1
                      up     == 2 * r > FracDen \/ (2 * r = FracDen /\ odd)
                      q1     == IF up THEN q + 1 ELSE q
                      carry  == q1 = Pow10(d)
                      ip     == IF carry THEN IncDigits(num.int) ELSE num.int
                      fp     == IF carry THEN 0 ELSE q1
                 IN  sign \o Ascii(ip)
                       \o (IF d = 0 THEN <<>>
                           ELSE <<46>> \o Ascii(PadDigits(fp, d)))

(* Text buffers a caller may pass: NUL-terminated, at most MaxLen + 1 long *)
Chars == {65, 66}
TextBufs ==
    UNION { { m \in [1..n -> Chars \cup {0}] : m[n] = 0 } : n \in 1..(MaxLen + 1) }

LCD_PrintFloat(num, decimals) ==
    /\ ~halted
    /\ UNCHANGED <<hi2c_lcd, lcd_addr>>
    /\ IF hi2c_lcd = NULL
       THEN Returns(LCD_NOT_INITIALIZED, <<>>)
       ELSE \E text \in {sprintf_f(num, IF decimals > 6 THEN 6 ELSE decimals)} :
            \E r \in {PrintString(Pointer(FALSE, text \o <<0>>))} :
                IF Len(text) + 1 <= 20
                THEN Returns(r.ret, r.out)
                ELSE \* sprintf wrote past char buffer[20]: undefined
                     \/ Returns(r.ret, r.out)
                     \/ Faults(r.out)
                     \/ Faults(<<>>)
                     \/ \E m \in { t \in TextBufs : Len(t) <= 2 } :
                            Returns(LCD_OK, WriteString(m, 0))
    /\ Observe("PrintFloat", [num |-> num, decimals |-> decimals])

(* The for loop of LCD_CreateChar: charmap[i] for i = 0..7.                *)
RECURSIVE WriteCharmap(_, _)
WriteCharmap(mem, i) ==
    IF i < 8 THEN LCD_WriteData(mem[i + 1]) \o WriteCharmap(mem, i + 1)
    ELSE <<>>

Glyph(k) == [i \in 1..8 |-> (k * 97 + i * 29) % 256]
GlyphMems == { Glyph(k) : k \in 1..NumGlyphs }

(* Variant: the location checked before the handle.                       *)
LCD_CreateChar_ArgFirst(location, charmap) ==
    /\ ~halted
    /\ UNCHANGED <<hi2c_lcd, lcd_addr>>
    /\ IF location > 7
       THEN Returns(LCD_ERROR, <<>>)
       ELSE IF hi2c_lcd = NULL
       THEN Returns(LCD_NOT_INITIALIZED, <<>>)
       ELSE LET cmd == LCD_WriteCommand(
                           U8(BitOr[LCD_SET_CGRAM_ADDR, location * 8]))
            IN  IF ~charmap.null
                THEN Returns(LCD_OK, cmd \o WriteCharmap(charmap.mem, 0))
                ELSE \/ \E g \in GlyphMems :
                            Returns(LCD_OK, cmd \o WriteCharmap(g, 0))
                     \/ Faults(cmd)
    /\ Observe("CreateChar", [location |-> location, charmap |-> charmap])

(* Variant: the location not shifted into the CGRAM address.               *)
LCD_CreateChar_NoShift(location, charmap) ==
    /\ ~halted
    /\ UNCHANGED <<hi2c_lcd, lcd_addr>>
    /\ IF hi2c_lcd = NULL
       THEN Returns(LCD_NOT_INITIALIZED, <<>>)
       ELSE IF location > 7
       THEN Returns(LCD_ERROR, <<>>)
       ELSE LET cmd == LCD_WriteCommand(
                           U8(BitOr[LCD_SET_CGRAM_ADDR, location]))
            IN  IF ~charmap.null
                THEN Returns(LCD_OK, cmd \o WriteCharmap(charmap.mem, 0))
                ELSE \/ \E g \in GlyphMems :
                            Returns(LCD_OK, cmd \o WriteCharmap(g, 0))
                     \/ Faults(cmd)
    /\ Observe("CreateChar", [location |-> location, charmap |-> charmap])

LCD_CreateChar(location, charmap) ==
    /\ ~halted
    /\ UNCHANGED <<hi2c_lcd, lcd_addr>>
    /\ IF hi2c_lcd = NULL
       THEN Returns(LCD_NOT_INITIALIZED, <<>>)
       ELSE IF location > 7
       THEN Returns(LCD_ERROR, <<>>)
       ELSE LET cmd == LCD_WriteCommand(
                           U8(BitOr[LCD_SET_CGRAM_ADDR, location * 8]))
            IN  IF ~charmap.null
                THEN Returns(LCD_OK, cmd \o WriteCharmap(charmap.mem, 0))
                ELSE \* charmap[i] dereferences a null pointer: undefined
                     \/ \E g \in GlyphMems :
                            Returns(LCD_OK, cmd \o WriteCharmap(g, 0))
                     \/ Faults(cmd)
    /\ Observe("CreateChar", [location |-> location, charmap |-> charmap])

LCD_WriteChar(location) ==
    /\ ~halted
    /\ UNCHANGED <<hi2c_lcd, lcd_addr>>
    /\ IF hi2c_lcd = NULL
       THEN Returns(LCD_NOT_INITIALIZED, <<>>)
       ELSE IF location > 7
       THEN Returns(LCD_ERROR, <<>>)
       ELSE Returns(LCD_OK, LCD_WriteData(location))
    /\ Observe("WriteChar", [location |-> location])

LCD_Display(state) ==
    /\ ~halted
    /\ UNCHANGED <<hi2c_lcd, lcd_addr>>
    /\ IF hi2c_lcd = NULL
       THEN Returns(LCD_NOT_INITIALIZED, <<>>)
       ELSE IF state # 0
       THEN Returns(LCD_OK,
                LCD_WriteCommand(BitOr[LCD_DISPLAY_CONTROL, LCD_DISPLAY_ON]))
       ELSE Returns(LCD_OK, LCD_WriteCommand(LCD_DISPLAY_CONTROL))
    /\ Observe("Display", [state |-> state])

LCD_Cursor(state) ==
    /\ ~halted
    /\ UNCHANGED <<hi2c_lcd, lcd_addr>>
    /\ IF hi2c_lcd = NULL
       THEN Returns(LCD_NOT_INITIALIZED, <<>>)
       ELSE LET command0 == BitOr[LCD_DISPLAY_CONTROL, LCD_DISPLAY_ON]
                command  == IF state # 0 THEN BitOr[command0, LCD_CURSOR_ON]
                                         ELSE command0
            IN  Returns(LCD_OK, LCD_WriteCommand(command))
    /\ Observe("Cursor", [state |-> state])

(* Variant: the cursor flag used where the blink flag belongs.             *)
LCD_Blink_Cursor(state) ==
    /\ ~halted
    /\ UNCHANGED <<hi2c_lcd, lcd_addr>>
    /\ IF hi2c_lcd = NULL
       THEN Returns(LCD_NOT_INITIALIZED, <<>>)
       ELSE LET command0 == BitOr[LCD_DISPLAY_CONTROL, LCD_DISPLAY_ON]
                command  == IF state # 0 THEN BitOr[command0, LCD_CURSOR_ON]
                                         ELSE command0
            IN  Returns(LCD_OK, LCD_WriteCommand(command))
    /\ Observe("Blink", [state |-> state])

LCD_Blink(state) ==
    /\ ~halted
    /\ UNCHANGED <<hi2c_lcd, lcd_addr>>
    /\ IF hi2c_lcd = NULL
       THEN Returns(LCD_NOT_INITIALIZED, <<>>)
       ELSE LET command0 == BitOr[LCD_DISPLAY_CONTROL, LCD_DISPLAY_ON]
                command  == IF state # 0 THEN BitOr[command0, LCD_BLINK_ON]
                                         ELSE command0
            IN  Returns(LCD_OK, LCD_WriteCommand(command))
    /\ Observe("Blink", [state |-> state])

(* Variant: the address only accepted once the transport is bound.        *)
LCD_SetAddress_Guarded(address) ==
    /\ ~halted
    /\ UNCHANGED hi2c_lcd
    /\ IF hi2c_lcd = NULL
       THEN /\ UNCHANGED lcd_addr
            /\ Returns(LCD_NOT_INITIALIZED, <<>>)
       ELSE /\ lcd_addr' = address
            /\ Returns(LCD_OK, <<>>)
    /\ Observe("SetAddress", [address |-> address])

LCD_SetAddress(address) ==
    /\ ~halted
    /\ lcd_addr' = address
    /\ UNCHANGED hi2c_lcd
    /\ Returns(LCD_OK, <<>>)
    /\ Observe("SetAddress", [address |-> address])

LCD_ScrollLeft ==
    /\ ~halted
    /\ UNCHANGED <<hi2c_lcd, lcd_addr>>
    /\ IF hi2c_lcd = NULL
       THEN Returns(LCD_NOT_INITIALIZED, <<>>)
       ELSE Returns(LCD_OK, LCD_WriteCommand(
                BitOr[BitOr[LCD_CURSOR_SHIFT, LCD_DISPLAY_MOVE], LCD_MOVE_LEFT]))
    /\ Observe("ScrollLeft", [none |-> 0])

LCD_ScrollRight ==
    /\ ~halted
    /\ UNCHANGED <<hi2c_lcd, lcd_addr>>
    /\ IF hi2c_lcd = NULL
       THEN Returns(LCD_NOT_INITIALIZED, <<>>)
       ELSE Returns(LCD_OK, LCD_WriteCommand(
                BitOr[BitOr[LCD_CURSOR_SHIFT, LCD_DISPLAY_MOVE], LCD_MOVE_RIGHT]))
    /\ Observe("ScrollRight", [none |-> 0])

LCD_Home ==
    /\ ~halted
    /\ UNCHANGED <<hi2c_lcd, lcd_addr>>
    /\ IF hi2c_lcd = NULL
       THEN Returns(LCD_NOT_INITIALIZED, <<>>)
       ELSE Returns(LCD_OK, LCD_WriteCommand(LCD_RETURN_HOME))
    /\ Observe("Home", [none |-> 0])

----------------------------------------------------------------------------
(* Inputs of the sequence model                                            *)

Handles  == 1..NumHandles
AddrOf(k) == U8(39 * 2 + 48 * k)
Addresses == { AddrOf(k) : k \in 0..MaxAddr }
Rows     == 0..MaxRow
Cols     == (20 - MaxColDelta)..(20 + MaxColDelta)
NullPtr  == Pointer(TRUE, <<>>)
Texts    == {NullPtr} \cup { Pointer(FALSE, m) : m \in TextBufs }
Nums     == (0 - MaxNum)..MaxNum

(* The decimal digits of a float too long for PrintFloat's buffer:         *)
(* k * 2^46, exactly representable; 2^46 = 70368744 * 10^6 + 177664.       *)
BigDigits(k) ==
    LET lo == 177664 * k
        hi == 70368744 * k + lo \div 1000000
    IN  UDigits(hi) \o PadDigits(lo % 1000000, 6)

Floats ==
    { Float("fin", FALSE, <<0>>, f) : f \in 0..(FracDen - 1) }
    \cup { Float("fin", TRUE, <<0>>, 0) }
    \cup { Float("fin", s, BigDigits(k), 0) :
               s \in BOOLEAN, k \in 1..MaxBig }
    \cup { Float("inf", s, <<0>>, 0) : s \in BOOLEAN }
    \cup { Float("nan", FALSE, <<0>>, 0) }

Decimals  == 0..MaxDecimals
Locations == 0..MaxLocation
Charmaps  == {NullPtr} \cup { Pointer(FALSE, g) : g \in GlyphMems }
States    == 0..MaxState

(* The driver before any call: the initializers of the two statics.       *)
InitDriver ==
    /\ hi2c_lcd = NULL
    /\ lcd_addr = U8(39 * 2)
    /\ halted = FALSE
    /\ op = "none"
    /\ arg = [none |-> 0]
    /\ ret = NoReturn
    /\ bus = <<>>
    /\ pre = [hi2c_lcd |-> NULL, lcd_addr |-> U8(39 * 2),
              inited |-> FALSE, setaddr |-> 78]
    /\ inited = FALSE
    /\ setaddr = 78
    /\ oddtx = FALSE
    /\ enhigh = FALSE

Init ==
    /\ InitDriver
    /\ inp = [none |-> 0]

Next ==
    \/ \E h \in {NULL} \cup Handles : LCD_Init(h)
    \/ LCD_Clear
    \/ \E row \in Rows, col \in Cols : LCD_SetCursor(row, col)
    \/ \E str \in Texts : LCD_PrintString(str)
    \/ \E num \in Nums : LCD_PrintInt(num)
    \/ \E num \in Floats, decimals \in Decimals : LCD_PrintFloat(num, decimals)
    \/ \E location \in Locations, charmap \in Charmaps :
           LCD_CreateChar(location, charmap)
    \/ \E location \in Locations : LCD_WriteChar(location)
    \/ \E state \in States : LCD_Display(state)
    \/ \E state \in States : LCD_Cursor(state)
    \/ \E state \in States : LCD_Blink(state)
    \/ \E address \in Addresses : LCD_SetAddress(address)
    \/ LCD_ScrollLeft
    \/ LCD_ScrollRight
    \/ LCD_Home

Spec == Init /\ [][Next]_vars

----------------------------------------------------------------------------
(* SetCursor over the whole range of its two uint8_t arguments: the        *)
(* arguments are fixed at the start and the call is made with them.        *)

InitSetCursor ==
    /\ InitDriver
    /\ inp \in { [row |-> r, col |-> c] : r \in 0..MaxByte, c \in 0..MaxByte }

NextSetCursor ==
    \/ LCD_Init(1)
    \/ LCD_SetCursor(inp.row, inp.col)

SpecSetCursor == InitSetCursor /\ [][NextSetCursor]_vars

----------------------------------------------------------------------------
(* LCD_WriteByte over every byte and both register selections.  It is a    *)
(* static function, so it only ever runs with the transport bound.         *)

CallWriteByte(data, rs) ==
    /\ ~halted
    /\ hi2c_lcd # NULL
    /\ UNCHANGED <<hi2c_lcd, lcd_addr>>
    /\ ret' = NoReturn
    /\ bus' = Transmit(LCD_WriteByte(data, rs))
    /\ halted' = FALSE
    /\ Observe("WriteByte", [data |-> data, rs |-> rs])

InitWriteByte ==
    /\ InitDriver
    /\ inp \in { [b |-> v, sel |-> r] : v \in 0..MaxByte, r \in 0..1 }

NextWriteByte ==
    \/ LCD_Init(1)
    \/ CallWriteByte(inp.b, inp.sel)

SpecWriteByte == InitWriteByte /\ [][NextWriteByte]_vars

----------------------------------------------------------------------------
(* Reading the bus trace.  These definitions decode what the expander and  *)
(* the controller see; they do not use the driver's own encoding.          *)

Packet(t) == t.data[1]                 \* the byte of a 1-byte transaction
Bit(p, mask) == (p \div mask) % 2      \* mask is a power of two

(* The nibbles latched by the controller: one per pair of transactions,    *)
(* <<register select, 4-bit value>>, read from the first of the pair.      *)
Nibbles(b) ==
    [k \in 1..(Len(b) \div 2) |->
        <<Bit(Packet(b[2 * k - 1]), 1), Packet(b[2 * k - 1]) \div 16>>]

(* The nibbles of a sequence of bytes <<register select, value>>, high     *)
(* nibble first.                                                           *)
AsNibbles(bytes) ==
    [k \in 1..(2 * Len(bytes)) |->
        <<bytes[(k + 1) \div 2][1],
          IF k % 2 = 1 THEN bytes[(k + 1) \div 2][2] \div 16
                       ELSE bytes[(k + 1) \div 2][2] % 16>>]

(* b is exactly the framed transfer of the given bytes.                    *)
Carries(b, bytes) == Len(b) = 4 * Len(bytes) /\ Nibbles(b) = AsNibbles(bytes)

Untouched == hi2c_lcd = pre.hi2c_lcd /\ lcd_addr = pre.lcd_addr

GuardedOps ==
    {"Clear", "SetCursor", "PrintString", "PrintInt", "PrintFloat",
     "CreateChar", "WriteChar", "Display", "Cursor", "Blink",
     "ScrollLeft", "ScrollRight", "Home"}

Min(x, y) == IF x < y THEN x ELSE y

(* Number of characters of a text before its terminator.                   *)
TextLen(mem) ==
    CHOOSE n \in 0..(Len(mem) - 1) :
        mem[n + 1] = 0 /\ \A j \in 1..n : mem[j] # 0

----------------------------------------------------------------------------
(* C1: an operation other than Init and SetAddress returns NotInitialized  *)
(* if and only if no Init with a valid transport was called before it,     *)
(* whatever its arguments; when it does, it issues no bus transaction and  *)
(* leaves the handle and the address unchanged; after a valid Init no      *)
(* operation at all returns NotInitialized.                                *)
C1_NotInitialized ==
    /\ op \in GuardedOps =>
          /\ (ret = LCD_NOT_INITIALIZED) <=> ~pre.inited
          /\ ret = LCD_NOT_INITIALIZED => bus = <<>> /\ Untouched
    /\ pre.inited => ret # LCD_NOT_INITIALIZED

C1_Witness ==
    /\ op = "CreateChar"
    /\ arg.location > 7
    /\ ~pre.inited
    /\ ret = LCD_NOT_INITIALIZED
    /\ bus = <<>>

(* C2: Init with a null transport (in either state) and, once initialized, *)
(* PrintString with a null text, CreateChar and WriteChar with a slot      *)
(* above 7 return the generic error, issue no bus transaction and leave    *)
(* the handle and the address unchanged; Init with a valid transport       *)
(* returns OK, also after a failed Init.                                   *)
C2_InvalidArgument ==
    /\ (\/ op = "Init" /\ arg.hi2c = NULL
        \/ pre.inited /\ op = "PrintString" /\ arg.str.null
        \/ pre.inited /\ op = "CreateChar" /\ arg.location > 7
        \/ pre.inited /\ op = "WriteChar" /\ arg.location > 7)
       => ret = LCD_ERROR /\ bus = <<>> /\ Untouched
    /\ op = "Init" /\ arg.hi2c # NULL => ret = LCD_OK /\ hi2c_lcd = arg.hi2c

C2_Witness ==
    /\ op = "Init"
    /\ arg.hi2c = NULL
    /\ pre.inited
    /\ ret = LCD_ERROR
    /\ hi2c_lcd = pre.hi2c_lcd
    /\ hi2c_lcd # NULL

(* C3: once initialized, SetCursor(row, col) returns OK for all rows and   *)
(* columns 0..255 and sends exactly one command byte,                      *)
(* 0x80 | (min(col, 19) + offset[min(row, 3)]) with offset = 0x00, 0x40,   *)
(* 0x14, 0x54; the sum never exceeds 0x7F, so the OR is an addition.       *)
C3_SetCursor ==
    op = "SetCursor" /\ pre.inited =>
        LET sum == Min(arg.col, 19) + <<0, 64, 20, 84>>[Min(arg.row, 3) + 1]
        IN  /\ ret = LCD_OK
            /\ sum <= 127
            /\ Carries(bus, << <<0, 128 + sum>> >>)

C3_Witness ==
    /\ op = "SetCursor"
    /\ arg.row = 5
    /\ arg.col = 25
    /\ ret = LCD_OK
    /\ Carries(bus, << <<0, 231>> >>)

(* C4: Init with a valid transport returns OK, binds the transport before  *)
(* the first transaction and sends, all with register select clear and     *)
(* nothing else: the nibble 0x3 three times, the nibble 0x2, then the      *)
(* commands 0x28, 0x08, 0x01, 0x06, 0x0C; also when already initialized.   *)
C4_InitSequence ==
    op = "Init" /\ arg.hi2c # NULL =>
        /\ ret = LCD_OK
        /\ hi2c_lcd = arg.hi2c
        /\ \A i \in 1..Len(bus) : bus[i].hi2c = arg.hi2c
        /\ Len(bus) = 28
        /\ Nibbles(bus) =
              << <<0, 3>>, <<0, 3>>, <<0, 3>>, <<0, 2>> >>
              \o AsNibbles(<< <<0, 40>>, <<0, 8>>, <<0, 1>>, <<0, 6>>,
                              <<0, 12>> >>)

C4_Witness ==
    /\ op = "Init"
    /\ arg.hi2c # NULL
    /\ pre.inited
    /\ pre.hi2c_lcd # arg.hi2c
    /\ Len(bus) = 28
    /\ bus[1].hi2c = arg.hi2c

(* C5 as stated: once initialized, PrintString of a non-null text of n     *)
(* characters returns OK and sends the n characters, in order, as data     *)
(* bytes, using 2 bus transactions per character.                          *)
C5_TwoPerCharacter ==
    op = "PrintString" /\ pre.inited /\ ~arg.str.null =>
        /\ ret = LCD_OK
        /\ Len(bus) = 2 * TextLen(arg.str.mem)
        /\ Nibbles(bus) = AsNibbles([k \in 1..TextLen(arg.str.mem) |->
                                        <<1, arg.str.mem[k]>>])

(* C5, amended: once initialized, PrintString of a non-null text of n      *)
(* characters returns OK and sends exactly the n characters, in order, as  *)
(* data bytes, 4 bus transactions per character (2 for each of the 2       *)
(* nibbles); an empty text sends nothing.                                  *)
C5_PrintString ==
    op = "PrintString" /\ pre.inited /\ ~arg.str.null =>
        /\ ret = LCD_OK
        /\ Len(bus) = 4 * TextLen(arg.str.mem)
        /\ Carries(bus, [k \in 1..TextLen(arg.str.mem) |->
                             <<1, arg.str.mem[k]>>])

C5_Witness ==
    /\ op = "PrintString"
    /\ pre.inited
    /\ arg.str.mem = <<65, 66, 0>>
    /\ Len(bus) = 8
    /\ Nibbles(bus) = << <<1, 4>>, <<1, 1>>, <<1, 4>>, <<1, 2>> >>

(* C6 as stated: once initialized, CreateChar(slot, glyph) with slot 0..7  *)
(* returns OK and sends the command 0x40 | (slot << 3) followed by the 8   *)
(* glyph bytes in order as data, 2 bus transactions per byte, 18 in total. *)
C6_EighteenTransactions ==
    op = "CreateChar" /\ pre.inited /\ arg.location <= 7
        /\ ~arg.charmap.null =>
        /\ ret = LCD_OK
        /\ Len(bus) = 18
        /\ Nibbles(bus) = AsNibbles(<< <<0, 64 + 8 * arg.location>> >>
                             \o [k \in 1..8 |-> <<1, arg.charmap.mem[k]>>])

(* C6, amended: once initialized, CreateChar(slot, glyph) with slot 0..7   *)
(* and a glyph of 8 bytes returns OK and sends the command                 *)
(* 0x40 | (slot << 3) followed by the 8 glyph bytes in order as data, 4    *)
(* bus transactions per byte, 36 in total.                                 *)
C6_CreateChar ==
    op = "CreateChar" /\ pre.inited /\ arg.location <= 7
        /\ ~arg.charmap.null =>
        /\ ret = LCD_OK
        /\ Len(bus) = 36
        /\ Carries(bus, << <<0, 64 + 8 * arg.location>> >>
                        \o [k \in 1..8 |-> <<1, arg.charmap.mem[k]>>])

C6_Witness ==
    /\ op = "CreateChar"
    /\ pre.inited
    /\ arg.location = 3
    /\ ~arg.charmap.null
    /\ ret = LCD_OK
    /\ Len(bus) = 36
    /\ Nibbles(bus)[1] = <<0, 5>>
    /\ Nibbles(bus)[2] = <<0, 8>>

(* C7: LCD_WriteByte(b, rs) sends the high nibble of b and then the low    *)
(* nibble, each in bits 7..4 of its packets; the two nibbles recombine to  *)
(* b, and bits 3..0 of every packet hold only backlight, enable and        *)
(* register select, never a bit of b.                                      *)
C7_ByteFraming ==
    op = "WriteByte" =>
        /\ Len(bus) = 4
        /\ Packet(bus[1]) \div 16 = arg.data \div 16
        /\ Packet(bus[3]) \div 16 = arg.data % 16
        /\ (Packet(bus[1]) - (Packet(bus[1]) % 16))
              + ((Packet(bus[3]) - (Packet(bus[3]) % 16)) \div 16) = arg.data
        /\ \A i \in 1..4 :
              Packet(bus[i]) % 16 =
                  8 + (IF i % 2 = 1 THEN 4 ELSE 0)
                    + (IF arg.rs # 0 THEN 1 ELSE 0)

C7_Witness ==
    /\ op = "WriteByte"
    /\ arg.data = 165
    /\ arg.rs = 1
    /\ bus[1].data = <<173>>
    /\ bus[3].data = <<93>>

(* C8: once initialized, Display, Cursor and Blink return OK and send one  *)
(* display-control command fixed by the argument alone: Display 0x0C or    *)
(* 0x08, Cursor 0x0E or 0x0C, Blink 0x0D or 0x0C (non-zero or zero).       *)
C8_DisplayControl ==
    /\ op = "Display" /\ pre.inited =>
          /\ ret = LCD_OK
          /\ Carries(bus, << <<0, IF arg.state # 0 THEN 12 ELSE 8>> >>)
    /\ op = "Cursor" /\ pre.inited =>
          /\ ret = LCD_OK
          /\ Carries(bus, << <<0, IF arg.state # 0 THEN 14 ELSE 12>> >>)
    /\ op = "Blink" /\ pre.inited =>
          /\ ret = LCD_OK
          /\ Carries(bus, << <<0, IF arg.state # 0 THEN 13 ELSE 12>> >>)

C8_Witness ==
    /\ op = "Blink"
    /\ pre.inited
    /\ arg.state # 0
    /\ ret = LCD_OK
    /\ Carries(bus, << <<0, 13>> >>)

(* C9: SetAddress returns OK in either state, issues no transaction, sets  *)
(* the address and leaves the handle alone; no other operation changes the *)
(* address; every transaction goes to the address of the latest SetAddress *)
(* or to 0x4E if there was none.                                           *)
C9_DeviceAddress ==
    /\ op = "SetAddress" =>
          /\ ret = LCD_OK
          /\ bus = <<>>
          /\ lcd_addr = arg.address
          /\ hi2c_lcd = pre.hi2c_lcd
    /\ op # "SetAddress" => lcd_addr = pre.lcd_addr
    /\ \A i \in 1..Len(bus) : bus[i].addr = setaddr
    /\ op # "SetAddress" => setaddr = pre.setaddr

C9_Witness ==
    /\ op = "Init"
    /\ ~pre.inited
    /\ ret = LCD_OK
    /\ setaddr # 78
    /\ bus[1].addr = setaddr

(* C10: the transactions come in pairs of 1-byte writes, the first with    *)
(* the enable bit, the second the same byte without it; every packet has   *)
(* the backlight bit set and the read/write bit clear; register select is  *)
(* set exactly in the packets of data bytes.  The number of transactions   *)
(* issued so far is even and the last one left enable low.                 *)
C10_EnablePulse ==
    /\ Len(bus) % 2 = 0
    /\ \A i \in 1..Len(bus) :
          /\ Len(bus[i].data) = 1
          /\ Bit(Packet(bus[i]), LCD_BACKLIGHT) = 1
          /\ Bit(Packet(bus[i]), LCD_RW) = 0
          /\ Bit(Packet(bus[i]), LCD_EN) = i % 2
          /\ i % 2 = 0 => Packet(bus[i]) = Packet(bus[i - 1]) - LCD_EN
          /\ Bit(Packet(bus[i]), LCD_RS) =
                IF op \in {"PrintString", "PrintInt", "PrintFloat",
                           "WriteChar"} THEN 1
                ELSE IF op = "CreateChar" /\ i > 4 THEN 1
                ELSE 0
    /\ ~oddtx
    /\ ~enhigh

C10_Witness ==
    /\ op = "CreateChar"
    /\ ret = LCD_OK
    /\ Len(bus) = 36
    /\ Bit(Packet(bus[35]), LCD_EN) = 1
    /\ Bit(Packet(bus[35]), LCD_RS) = 1
    /\ Bit(Packet(bus[36]), LCD_EN) = 0
    /\ ~enhigh

====
